---------------------------- MODULE Spec2Model ----------------------------
(***************************************************************************)
(* Exam-gen: questions synthesised from law articles.                      *)
(*                                                                         *)
(* A Python str is modelled as the sequence of its Unicode code points     *)
(* (ord of every character), so that substring tests, replacements,        *)
(* splitting and formatting are computed character by character.           *)
(***************************************************************************)
EXTENDS Integers, Sequences, FiniteSets, TLC

VARIABLES
    pc,        \* position of the run under way
    s,         \* negate_statement: the argument
    out,       \* negate_statement: the returned string
    arts,      \* a generator's candidate article list (its parameter arts)
    count,     \* a generator's parameter count
    idx,       \* number of articles the generator's for-loop has consumed
    results,   \* a generator's results list
    seen,      \* make_true_false: seen; make_single_choice: seen_q
    built,     \* history: per result, what it was built from (base, correct, ...)
    articles,  \* assemble_exam: the parameter articles
    cfg,       \* assemble_exam: the parameter cfg
    seed,      \* assemble_exam: the seed the parameter rng was created from
    run,       \* assemble_exam: which of the two independent runs is under way
    subsets,   \* assemble_exam: tf_arts, sc_arts, mc_arts, fb_arts, short_important
    module_random, \* the module-level generator of random (random.choices draws from it)
    exam       \* assemble_exam: per run, the returned exam (or what it raised)

textVars == <<s, out>>
genVars == <<arts, count, idx, results, seen, built>>
asmVars == <<articles, cfg, seed, run, subsets, module_random, exam>>
vars == <<pc, s, out, arts, count, idx, results, seen, built,
          articles, cfg, seed, run, subsets, module_random, exam>>

----------------------------------------------------------------------------
(* Bounds of the model. *)

MaxPieces == 3       \* most pieces a generated string is put together from
MaxArts == 2         \* longest candidate list handed to a generator
MaxCount == 2        \* largest requested count
NumSeeds == 2        \* number of seeds the rng of assemble_exam is created from
TapeLen == 96        \* outputs of a generator, from its seeding on, that a run can draw

----------------------------------------------------------------------------
(* Strings. *)

\* Code points of the characters the program's literals are made of.
Ch == [ ying |-> 24212, dang |-> 24403,      \* U+5E94 U+5F53  "shall"
        bu |-> 19981, de |-> 24471,          \* U+4E0D U+5F97  "shall not"
        ke |-> 21487, yi |-> 20197,          \* U+53EF U+4EE5  "may"
        bi |-> 24517, xu |-> 39035,          \* U+5FC5 U+987B  "must"
        jin |-> 31105, zhi |-> 27490,        \* U+7981 U+6B62  "forbidden"
        yun |-> 20801, xv |-> 35768,         \* U+5141 U+8BB8  "allowed"
        pi |-> 25209, zhun |-> 20934,        \* U+6279 U+51C6  "approve"
        bei |-> 22791, an |-> 26696,         \* U+5907 U+6848  "file"
        fa |-> 32602, kuan |-> 27454,        \* U+7F5A U+6B3E  "fine"
        ze |-> 36131, ren |-> 20219,         \* U+8D23 U+4EFB  "liability"
        yiw |-> 20041, wu |-> 21153,         \* U+4E49 U+52A1  "duty"
        stop |-> 12290,                      \* U+3002 ideographic full stop
        semi |-> 65307,                      \* U+FF1B fullwidth semicolon
        excl |-> 65281,                      \* U+FF01 fullwidth exclamation mark
        ques |-> 65311,                      \* U+FF1F fullwidth question mark
        aexcl |-> 33, aques |-> 63,          \* ASCII ! ?
        asemi |-> 59, adot |-> 46,           \* ASCII ; .
        sp |-> 32, nl |-> 10, tab |-> 9,     \* ASCII space, line feed, tab
        cr |-> 13, nbsp |-> 160,             \* carriage return, U+00A0
        isp |-> 12288,                       \* U+3000 ideographic space
        d0 |-> 48, d1 |-> 49, d9 |-> 57,     \* ASCII digits 0, 1 and 9
        fw3 |-> 65299, ai3 |-> 1635,         \* U+FF13 fullwidth 3, U+0663 Arabic-Indic 3
        ff |-> 12, nel |-> 133,              \* form feed, U+0085 next line
        bar |-> 124,                         \* ASCII |
        gong |-> 20844, min |-> 27665,       \* U+516C U+6C11  "citizen"
        law |-> 27861, tiao |-> 26465,       \* U+6CD5 U+6761
        di |-> 31532 ]                       \* U+7B2C

Min(a, b) == IF a < b THEN a ELSE b
Max(a, b) == IF a > b THEN a ELSE b

\* F(v), the value v computed once and bound to a name
With(v, F(_)) == CHOOSE r \in {F(x) : x \in {v}} : TRUE

\* t[a:b] of Python (0-based, b exclusive), for 0 <= a <= b <= len(t)
Slice(t, a, b) == SubSeq(t, a + 1, b)

\* whether w occurs in t at 0-based offset p
OccursAt(w, t, p) ==
    /\ p + Len(w) <= Len(t)
    /\ \A k \in 1..Len(w) : t[p + k] = w[k]

\* w in t
Contains(t, w) == \E p \in 0..(Len(t) - Len(w)) : OccursAt(w, t, p)

\* t.find(w): the least offset of w in t; only used when w in t
Find(t, w) == CHOOSE p \in 0..(Len(t) - Len(w)) :
                 /\ OccursAt(w, t, p)
                 /\ \A q \in 0..(p - 1) : ~OccursAt(w, t, q)

\* t.replace(a, b, 1): the first occurrence of a replaced by b
ReplaceFirst(t, a, b) ==
    IF Contains(t, a)
    THEN LET p == Find(t, a)
         IN  Slice(t, 0, p) \o b \o Slice(t, p + Len(a), Len(t))
    ELSE t

\* number of (possibly overlapping) occurrences of w in t
Occurrences(t, w) == Cardinality({p \in 0..(Len(t) - Len(w)) : OccursAt(w, t, p)})

\* the code points of the digit zero of every Unicode decimal digit block
\* (category Nd): what \d matches in a str pattern and int() reads
DigitZeros ==
    { 48, 1632, 1776, 1984, 2406, 2534, 2662, 2790, 2918, 3046, 3174, 3302,
      3430, 3558, 3664, 3792, 3872, 4160, 4240, 6112, 6160, 6470, 6608, 6784,
      6800, 6992, 7088, 7232, 7248, 42528, 43216, 43264, 43472, 43504, 43600,
      44016, 65296, 66720, 68912, 69734, 69872, 69942, 70096, 70384, 70736,
      70864, 71248, 71360, 71472, 71904, 72016, 72784, 73040, 73120, 92768,
      92864, 93008, 120782, 120792, 120802, 120812, 120822, 123200, 123632,
      125264, 130032 }

\* the code points \s matches in a str pattern and str.strip() removes
Whitespace ==
    { 9, 10, 11, 12, 13, 28, 29, 30, 31, 32, 133, 160, 5760, 8192, 8193, 8194,
      8195, 8196, 8197, 8198, 8199, 8200, 8201, 8202, 8232, 8233, 8239, 8287,
      12288 }

IsDigit(c) == \E z \in DigitZeros : c \in z..(z + 9)
IsSpace(c) == c \in Whitespace

\* int(c) for one decimal digit
DigitValue(c) == c - (CHOOSE z \in DigitZeros : c \in z..(z + 9))

\* what a call gives: the value it returns, or the exception it raises
Returned(v) == [raised |-> "none", v |-> v]
Raises(what) == [raised |-> what, v |-> <<>>]

\* sys.get_int_max_str_digits(): the most decimal digits int() reads from a
\* string and str() writes for an int
MaxStrDigits == 4300

\* An int that is not negative is the sequence of its decimal digits, the
\* highest first, with no leading zero (zero is <<0>>): Python ints have no
\* largest value.

\* the int a non-empty run of decimal digits stands for
IntValue(ds) ==
    IF \A i \in 1..Len(ds) : DigitValue(ds[i]) = 0 THEN <<0>>
    ELSE With(CHOOSE i \in 1..Len(ds) :
                  /\ DigitValue(ds[i]) # 0
                  /\ \A j \in 1..(i - 1) : DigitValue(ds[j]) = 0,
              LAMBDA first :
                  <<>> \o [i \in 1..(Len(ds) - first + 1) |->
                              DigitValue(ds[i + first - 1])])

\* int(digits) for a non-empty run of decimal digits: ValueError when the run
\* has more than MaxStrDigits digits, leading zeros counted
IntOf(ds) == IF Len(ds) > MaxStrDigits THEN Raises("ValueError")
             ELSE Returned(IntValue(ds))

\* n + 1
PlusOne(n) ==
    IF \A i \in 1..Len(n) : n[i] = 9 THEN <<1>> \o [i \in 1..Len(n) |-> 0]
    ELSE With(CHOOSE i \in 1..Len(n) :
                  /\ n[i] # 9
                  /\ \A j \in (i + 1)..Len(n) : n[j] = 9,
              LAMBDA last :
                  <<>> \o [i \in 1..Len(n) |-> IF i < last THEN n[i]
                                               ELSE IF i = last THEN n[i] + 1 ELSE 0])

\* the decimal digits of n as characters
Decimal(n) == <<>> \o [i \in 1..Len(n) |-> 48 + n[i]]

\* str(n) for n >= 0: ValueError when n has more than MaxStrDigits digits
StrOf(n) == IF Len(n) > MaxStrDigits THEN Raises("ValueError")
            ELSE Returned(Decimal(n))

\* m.start() and m.end() of re.search(r"\d+", t): the first maximal digit run
FirstDigit(t) == CHOOSE p \in 1..Len(t) :
                    IsDigit(t[p]) /\ \A q \in 1..(p - 1) : ~IsDigit(t[q])
DigitRunEnd(t, p) == CHOOSE e \in p..Len(t) :
                        /\ (e = Len(t) \/ ~IsDigit(t[e + 1]))
                        /\ \A q \in p..e : IsDigit(t[q])
HasDigit(t) == \E p \in 1..Len(t) : IsDigit(t[p])


\* the strings put together from at most n of the given pieces
RECURSIVE PieceStrings(_, _)
PieceStrings(P, n) ==
    IF n = 0 THEN {<<>>}
    ELSE LET shorter == PieceStrings(P, n - 1)
         IN  shorter \cup {t \o w : t \in shorter, w \in P}

----------------------------------------------------------------------------
(* text_processor.py *)

KEY_TERMS == << <<Ch.bu, Ch.de>>, <<Ch.ying, Ch.dang>>, <<Ch.ke, Ch.yi>>,
                <<Ch.bi, Ch.xu>>, <<Ch.jin, Ch.zhi>>, <<Ch.pi, Ch.zhun>>,
                <<Ch.bei, Ch.an>>, <<Ch.fa, Ch.kuan>>, <<Ch.ze, Ch.ren>>,
                <<Ch.yiw, Ch.wu>> >>

\* text.strip()
RECURSIVE Strip(_)
Strip(t) ==
    IF t = <<>> THEN t
    ELSE IF IsSpace(t[1]) THEN Strip(Tail(t))
    ELSE IF IsSpace(t[Len(t)]) THEN Strip(Slice(t, 0, Len(t) - 1))
    ELSE t

\* WHITESPACE_RE.sub(" ", text): every maximal whitespace run becomes one
\* space; of a run the last character is the one kept, as a space
CollapseSpace(t) ==
    LET EndsRun(i) == ~IsSpace(t[i]) \/ i = Len(t) \/ ~IsSpace(t[i + 1])
    IN  With(SelectSeq([i \in 1..Len(t) |-> i], EndsRun), LAMBDA kept :
            <<>> \o [k \in 1..Len(kept) |->
                        IF IsSpace(t[kept[k]]) THEN Ch.sp ELSE t[kept[k]]])

normalize_text(text) == Strip(CollapseSpace(text))

\* the characters of the lookbehind class of split_sentences
SentenceEnd == {Ch.stop, Ch.semi, Ch.excl, Ch.ques, Ch.aexcl, Ch.aques}

\* re.split(r"(?<=[...])", text): a cut after every character of the class
RECURSIVE SplitAfterEnd(_)
SplitAfterEnd(t) ==
    IF \E p \in 1..Len(t) : t[p] \in SentenceEnd
    THEN LET p == CHOOSE q \in 1..Len(t) :
                     t[q] \in SentenceEnd /\ \A r \in 1..(q - 1) : t[r] \notin SentenceEnd
         IN  <<Slice(t, 0, p)>> \o SplitAfterEnd(Slice(t, p, Len(t)))
    ELSE <<t>>

NonEmpty(t) == t # <<>>

split_sentences(text) ==
    LET parts == SplitAfterEnd(text)
    IN  SelectSeq([k \in 1..Len(parts) |-> Strip(parts[k])], NonEmpty)

\* NUMBER_RE.findall(norm): the maximal digit runs, in order of occurrence
RECURSIVE DigitRuns(_)
DigitRuns(t) ==
    IF HasDigit(t)
    THEN LET p == FirstDigit(t)
             e == DigitRunEnd(t, p)
         IN  <<Slice(t, p - 1, e)>> \o DigitRuns(Slice(t, e, Len(t)))
    ELSE <<>>

\* extract_entities(text); "dates" is read by no caller and is left out; "nouns"
\* is [] without spaCy, and with spacy.blank("zh") too (one token per character,
\* none of length >= 2 is kept from han text)
extract_entities(text) ==
    With(normalize_text(text), LAMBDA norm :
        LET InNorm(t) == Contains(norm, t)
        IN  [ numbers |-> DigitRuns(norm),
              terms |-> SelectSeq(KEY_TERMS, InNorm),
              nouns |-> <<>>,
              sentences |-> split_sentences(norm) ])

\* list(dict.fromkeys(xs)): duplicates removed, first occurrence kept
RECURSIVE Dedup(_)
Dedup(xs) ==
    IF xs = <<>> THEN xs
    ELSE LET front == Dedup(Slice(xs, 0, Len(xs) - 1))
             last == xs[Len(xs)]
         IN  IF \E k \in 1..Len(front) : front[k] = last THEN front
             ELSE Append(front, last)

pick_keywords(entities, max_k) ==
    LET candidates == Dedup(entities.terms \o entities.nouns)
    IN  Slice(candidates, 0, Min(max_k, Len(candidates)))

----------------------------------------------------------------------------
(* question_generator.py: negate_statement *)

\* the table swaps
swaps == << << <<Ch.ying, Ch.dang>>, <<Ch.bu, Ch.de>> >>,
            << <<Ch.bi, Ch.xu>>, <<Ch.ke, Ch.yi>> >>,
            << <<Ch.ke, Ch.yi>>, <<Ch.bu, Ch.de>> >>,
            << <<Ch.bu, Ch.de>>, <<Ch.ke, Ch.yi>> >>,
            << <<Ch.jin, Ch.zhi>>, <<Ch.yun, Ch.xv>> >> >>

\* the literal appended when nothing else applies (11 characters, in fullwidth
\* parentheses: "this sentence may be a false statement")
Disclaimer == <<65288, 26412, 21477, 21487, 33021, 20026, 38169, 35823, 38472,
                36848, 65289>>

\* the number tweak: the first digit run, plus one; int and str may raise
TweakNumber(t) ==
    With(FirstDigit(t), LAMBDA p :
    With(DigitRunEnd(t, p), LAMBDA e :
    With(IntOf(Slice(t, p - 1, e)), LAMBDA num :
        IF num.raised # "none" THEN num
        ELSE With(StrOf(PlusOne(num.v)), LAMBDA digits :
                 IF digits.raised # "none" THEN digits
                 ELSE Returned(Slice(t, 0, p - 1) \o digits.v \o Slice(t, e, Len(t)))))))

\* the for-loop over swaps, from entry k on, and what follows it: the string
\* returned, or the ValueError of the number tweak
RECURSIVE SwapFrom(_, _)
SwapFrom(t, k) ==
    IF k > Len(swaps) THEN
        IF HasDigit(t) THEN TweakNumber(t) ELSE Returned(t \o Disclaimer)
    ELSE IF Contains(t, swaps[k][1])
    THEN Returned(ReplaceFirst(t, swaps[k][1], swaps[k][2]))
    ELSE SwapFrom(t, k + 1)

\* negate_statement handing its argument back as it is
negate_unchanged(t) == Returned(t)

negate_statement(t) == SwapFrom(t, 1)

----------------------------------------------------------------------------
(* Idle values of the variable groups a specification does not use. *)

TextIdle == s = <<>> /\ out = <<>>
GenIdle == /\ arts = <<>> /\ count = 0 /\ idx = 0
           /\ results = <<>> /\ seen = {} /\ built = <<>>
AsmIdle == /\ articles = <<>> /\ cfg = <<>> /\ seed = 0 /\ run = 0
           /\ subsets = <<>> /\ module_random = <<>> /\ exam = <<>>

----------------------------------------------------------------------------
(* negate_statement applied to generated sentences. *)

NegPieces == { <<Ch.ying, Ch.dang>>, <<Ch.bi, Ch.xu>>, <<Ch.ke, Ch.yi>>,
               <<Ch.bu, Ch.de>>, <<Ch.jin, Ch.zhi>>, <<Ch.yun, Ch.xv>>,
               <<Ch.ying>>, <<Ch.d0>>, <<Ch.d9>>, <<Ch.fw3>>, <<Ch.law>> }

\* the character c, n times
Repeat(c, n) == <<>> \o [i \in 1..n |-> c]

\* sentences whose number is at the limit of int and str, or beyond it:
\* MaxStrDigits + 1 ones, MaxStrDigits nines, MaxStrDigits ones, and the first
\* after 应当
LongNumbers == { Repeat(Ch.d1, MaxStrDigits + 1),
                 Repeat(Ch.d9, MaxStrDigits),
                 Repeat(Ch.d1, MaxStrDigits),
                 <<Ch.ying, Ch.dang>> \o Repeat(Ch.d1, MaxStrDigits + 1) }

NegInit ==
    /\ pc = "negate"
    /\ s \in PieceStrings(NegPieces, MaxPieces) \cup LongNumbers
    /\ out = <<>>
    /\ GenIdle /\ AsmIdle

\* negate_statement(s) returns
Negate ==
    /\ pc = "negate"
    /\ \E got \in {negate_statement(s)} :
          /\ got.raised = "none"
          /\ out' = got.v
    /\ pc' = "negated"
    /\ UNCHANGED <<s, genVars, asmVars>>

\* negate_statement(s) raises
NegateRaises ==
    /\ pc = "negate"
    /\ negate_statement(s).raised # "none"
    /\ pc' = "negate_raised"
    /\ UNCHANGED <<s, out, genVars, asmVars>>

NegNext == Negate \/ NegateRaises

SpecNegate == NegInit /\ [][NegNext]_vars

\* the five words of the table, in table order: 应当 必须 可以 不得 禁止
ModalWords == << <<Ch.ying, Ch.dang>>, <<Ch.bi, Ch.xu>>, <<Ch.ke, Ch.yi>>,
                 <<Ch.bu, Ch.de>>, <<Ch.jin, Ch.zhi>> >>

\* what each word is replaced by: 不得 可以 不得 可以 允许
ModalOpposites == << <<Ch.bu, Ch.de>>, <<Ch.ke, Ch.yi>>, <<Ch.bu, Ch.de>>,
                     <<Ch.ke, Ch.yi>>, <<Ch.yun, Ch.xv>> >>

SameDigits(t, u) ==
    /\ Len(t) = Len(u)
    /\ \A j \in 1..Len(t) : (IsDigit(t[j]) \/ IsDigit(u[j])) => t[j] = u[j]

\* u is t with the first occurrence of the two-character word a overwritten by b
FirstOverwritten(t, u, a, b) ==
    \E p \in 0..(Len(t) - 2) :
        /\ OccursAt(a, t, p)
        /\ \A q \in 0..(p - 1) : ~OccursAt(a, t, q)
        /\ Len(u) = Len(t)
        /\ \A j \in 1..Len(t) :
              u[j] = IF j = p + 1 THEN b[1] ELSE IF j = p + 2 THEN b[2] ELSE t[j]

\* u is t with its first maximal digit run replaced by that number plus one
FirstRunIncremented(t, u) ==
    \E a \in 0..(Len(t) - 1) : \E b \in (a + 1)..Len(t) :
        /\ \A j \in 1..a : ~IsDigit(t[j])
        /\ (b = Len(t) \/ ~IsDigit(t[b + 1]))
        /\ \A j \in (a + 1)..b : IsDigit(t[j])
        /\ u = Slice(t, 0, a) \o Decimal(PlusOne(IntValue(Slice(t, a, b))))
                 \o Slice(t, b, Len(t))

\* C7: for every sentence, negate_statement applies exactly one transform, by
\* strict precedence: the first word of the table (in table order) that the
\* sentence contains has its first occurrence replaced and every digit stays
\* as it was; with no such word the first digit run is incremented by one and
\* nothing else changes; with neither, the disclaimer is appended.
NegationPrecedence ==
    pc \in {"negated", "negate_raised"} =>
        LET present == {k \in 1..Len(ModalWords) : Contains(s, ModalWords[k])}
        IN  /\ pc = "negated"
            /\ IF present # {}
               THEN LET k == CHOOSE m \in present : \A n \in present : m <= n
                    IN  /\ FirstOverwritten(s, out, ModalWords[k], ModalOpposites[k])
                        /\ SameDigits(s, out)
               ELSE IF HasDigit(s) THEN FirstRunIncremented(s, out)
               ELSE out = s \o Disclaimer

----------------------------------------------------------------------------
(* random.Random: the methods the generators call.  An rng is the sequence  *)
(* of 32-bit outputs its Mersenne Twister has yet to produce, each without  *)
(* its lowest bit, which no method used here reads.  The methods are        *)
(* computed as CPython 3.11 computes them.                                  *)
(***************************************************************************)

Pow2(k) == 2 ^ k

\* n.bit_length()
RECURSIVE BitLength(_)
BitLength(n) == IF n = 0 THEN 0 ELSE 1 + BitLength(n \div 2)

\* rng.getrandbits(k), 1 <= k <= 31: the k highest bits of the next output
getrandbits(rng, k) == Head(rng) \div Pow2(31 - k)

\* the loop of _randbelow(n): outputs whose n.bit_length() highest bits are
\* n or more are passed over
RECURSIVE SkipRejected(_, _)
SkipRejected(rng, n) ==
    IF getrandbits(rng, BitLength(n)) >= n THEN SkipRejected(Tail(rng), n) ELSE rng

\* rng._randbelow(n), n > 0, and the rng after it
randbelow(rng, n) == getrandbits(SkipRejected(rng, n), BitLength(n))
Drawn(rng, n) == Tail(SkipRejected(rng, n))

\* rng.random() < 0.5: random() is (a * 2^26 + b) / 2^53 with a the 27 highest
\* bits of one output and b the 26 highest bits of the next, so it is below
\* 0.5 when the highest bit of the first is 0; and the rng after it
random_lt_half(rng) == Head(rng) < Pow2(30)
DrawnRandom(rng) == Tail(Tail(rng))

\* rng.choice(seq), seq not empty
choice(rng, seq) == seq[randbelow(rng, Len(seq)) + 1]

\* rng.randint(a, b): a + _randbelow(b - a + 1)
randint(rng, a, b) == a + randbelow(rng, b - a + 1)

Swap(x, a, b) == [x EXCEPT ![a] = x[b], ![b] = x[a]]

\* rng.shuffle(x): for i = len(x)-1 down to 1, exchange x[i] and x[randbelow(i+1)]
\* (i is the 0-based index); yields the shuffled list and the rng after it
RECURSIVE ShuffleFrom(_, _, _)
ShuffleFrom(rng, x, i) ==
    IF i < 1 THEN [v |-> x, rng |-> rng]
    ELSE ShuffleFrom(Drawn(rng, i + 1),
                     Swap(x, i + 1, randbelow(rng, i + 1) + 1), i - 1)

shuffle(rng, x) == ShuffleFrom(rng, x, Len(x) - 1)

\* rng.sample(population, k) for len(population) <= 21, 0 <= k <= len(population):
\* result[i] = pool[j], pool[j] = pool[n-i-1] with j = randbelow(n-i)
RECURSIVE SampleFrom(_, _, _, _, _)
SampleFrom(rng, pool, i, k, result) ==
    IF i >= k THEN [v |-> result, rng |-> rng]
    ELSE LET n == Len(pool)
             j == randbelow(rng, n - i)
         IN  SampleFrom(Drawn(rng, n - i), [pool EXCEPT ![j + 1] = pool[n - i]],
                        i + 1, k, Append(result, pool[j + 1]))

sample(rng, population, k) == SampleFrom(rng, population, 0, k, <<>>)

\* an output on which _randbelow(n) returns h at once
Output(h, n) == h * Pow2(31 - BitLength(n))

\* the rngs whose k-th output makes _randbelow(dims[k]) one of 0..dims[k]-1,
\* none passed over
RECURSIVE Tapes(_)
Tapes(dims) ==
    IF dims = <<>> THEN {<<>>}
    ELSE {<<Output(h, dims[1])>> \o t :
              h \in 0..(dims[1] - 1), t \in Tapes(Tail(dims))}

\* the rngs of m calls of random(), each below 0.5 or not
RECURSIVE FlipTapes(_)
FlipTapes(m) ==
    IF m = 0 THEN {<<>>}
    ELSE {<<h * Pow2(30), 0>> \o t : h \in 0..1, t \in FlipTapes(m - 1)}

\* <<n, n-1, ..., n-k+1>>
Falling(n, k) == [i \in 1..k |-> n - i + 1]

----------------------------------------------------------------------------
(* question_generator.py: the literals of the question texts *)

\* f"关于“{key}”的表述符合该法条"
CorrectSingle(key) ==
    <<20851, 20110, 8220>> \o key \o
    <<8221, 30340, 34920, 36848, 31526, 21512, 35813, 27861, 26465>>

\* f"关于“{kw}”的表述不符合该法条"
Distractor(kw) ==
    <<20851, 20110, 8220>> \o kw \o
    <<8221, 30340, 34920, 36848, 19981, 31526, 21512, 35813, 27861, 26465>>

\* f"与“{kw}”相关的规定符合该法条"
CorrectMultiple(kw) ==
    <<19982, 8220>> \o kw \o
    <<8221, 30456, 20851, 30340, 35268, 23450, 31526, 21512, 35813, 27861, 26465>>

\* f"依据{article_no}，下列哪一项是正确的？\n{stem}"
SingleText(article_no, stem) ==
    <<20381, 25454>> \o article_no \o
    <<65292, 19979, 21015, 21738, 19968, 39033, 26159, 27491, 30830, 30340,
      65311, 10>> \o stem

\* f"依据{article_no}，下列哪些项是正确的？\n{stem}"
MultipleText(article_no, stem) ==
    <<20381, 25454>> \o article_no \o
    <<65292, 19979, 21015, 21738, 20123, 39033, 26159, 27491, 30830, 30340,
      65311, 10>> \o stem

\* f"简述{article_no}的主要内容或立法目的。"
ShortText(article_no) ==
    <<31616, 36848>> \o article_no \o
    <<30340, 20027, 35201, 20869, 23481, 25110, 31435, 27861, 30446, 30340, 12290>>

\* "\\rule{2cm}{0.4pt}"
BlankMarker == <<92, 114, 117, 108, 101, 123, 50, 99, 109, 125, 123, 48, 46, 52,
                 112, 116, 125>>

\* "对" and "错"
Dui == <<23545>>
Cuo == <<38169>>

\* chr(ord('A') + i)
Letter(i) == <<65 + i>>

\* options of a question that has none (Python None)
None == <<>>

Source(art) == [file |-> art.source_file, article |-> art.article_no]

----------------------------------------------------------------------------
(* Articles the generators are run on. *)

\* "law.docx"
SampleFile == <<108, 97, 119, 46, 100, 111, 99, 120>>

\* 第1条: '公民应当遵守法律。禁止滥用权利。'
A1 == [ source_file |-> SampleFile,
        article_no |-> <<31532, 49, 26465>>,
        text |-> <<20844, 27665, 24212, 24403, 36981, 23432, 27861, 24459, 12290,
                 31105, 27490, 28389, 29992, 26435, 21033, 12290>> ]

\* 第2条: '禁止滥用权利。\n可以备案。'
A2 == [ source_file |-> SampleFile,
        article_no |-> <<31532, 50, 26465>>,
        text |-> <<31105, 27490, 28389, 29992, 26435, 21033, 12290, 10, 21487,
                 20197, 22791, 26696, 12290>> ]

\* 第3条: '' (a heading with no body)
A3 == [ source_file |-> SampleFile,
        article_no |-> <<31532, 51, 26465>>,
        text |-> <<>> ]

\* 第4条: '罚款30元。\u3000逾期罚款100元！'
A4 == [ source_file |-> SampleFile,
        article_no |-> <<31532, 52, 26465>>,
        text |-> <<32602, 27454, 51, 48, 20803, 12290, 12288, 36926, 26399, 32602,
                 27454, 49, 48, 48, 20803, 65281>> ]

\* 第5条: '应当批准，不得罚款。'
A5 == [ source_file |-> SampleFile,
        article_no |-> <<31532, 53, 26465>>,
        text |-> <<24212, 24403, 25209, 20934, 65292, 19981, 24471, 32602, 27454,
                 12290>> ]

\* 第6条: '可以备案。'
A6 == [ source_file |-> SampleFile,
        article_no |-> <<31532, 54, 26465>>,
        text |-> <<21487, 20197, 22791, 26696, 12290>> ]

\* 第7条: '可以备案批准。'
A7 == [ source_file |-> SampleFile,
        article_no |-> <<31532, 55, 26465>>,
        text |-> <<21487, 20197, 22791, 26696, 25209, 20934, 12290>> ]

\* 第8条: '公民遵守法律。' (no modal word, no digit)
A8 == [ source_file |-> SampleFile,
        article_no |-> <<31532, 56, 26465>>,
        text |-> <<20844, 27665, 36981, 23432, 27861, 24459, 12290>> ]

\* 第9条: a number of MaxStrDigits + 1 digits and a full stop
A9 == [ source_file |-> SampleFile,
        article_no |-> <<31532, 57, 26465>>,
        text |-> [i \in 1..(MaxStrDigits + 1) |-> Ch.d1] \o <<Ch.stop>> ]

\* 第10条: '应当批准备案，不得罚款。' (five modal words)
A10 == [ source_file |-> SampleFile,
         article_no |-> <<31532, 49, 48, 26465>>,
         text |-> <<24212, 24403, 25209, 20934, 22791, 26696, 65292, 19981, 24471,
                  32602, 27454, 12290>> ]

\* the sequences over S of length at most n
ListsUpTo(S, n) == UNION {[1..k -> S] : k \in 0..n}

\* the article of a document whose only body is the given text
ArticleOf(text) == [source_file |-> SampleFile, article_no |-> A1.article_no,
                    text |-> text]

----------------------------------------------------------------------------
(* question_generator.py: make_true_false *)

\* the state of a generator's loop: its results, its seen set, the rng, the
\* exception that ended it if one did, and (history, not read by the program)
\* what each result was built from
LoopStart(rng) == [results |-> <<>>, seen |-> {}, built |-> <<>>, rng |-> rng,
                   raised |-> "none"]

\* the inner for-loop over the sentences of one article, from sentence k on;
\* a ValueError of negate_statement ends the run
RECURSIVE TFSentences(_, _, _, _, _)
TFSentences(st, art, sents, k, cnt) ==
    IF k > Len(sents) \/ Len(st.results) >= cnt \/ st.raised # "none" THEN st
    ELSE LET base == sents[k]
         IN  IF base \in st.seen \/ Len(base) < 6
             THEN TFSentences(st, art, sents, k + 1, cnt)
             ELSE With(random_lt_half(st.rng), LAMBDA flip :
                  With(IF flip THEN negate_statement(base) ELSE Returned(base),
                       LAMBDA q :
                  With(
                    IF q.raised # "none"
                    THEN [ st EXCEPT !.seen = st.seen \cup {base},
                                     !.rng = DrawnRandom(st.rng),
                                     !.raised = q.raised ]
                    ELSE [ results |-> Append(st.results,
                              [ type |-> "true_false",
                                question |-> q.v,
                                options |-> <<Dui, Cuo>>,
                                answer |-> IF ~flip THEN Dui ELSE Cuo,
                                source |-> Source(art) ]),
                           seen |-> st.seen \cup {base},
                           built |-> Append(st.built, [base |-> base, flip |-> flip]),
                           rng |-> DrawnRandom(st.rng),
                           raised |-> "none" ],
                    LAMBDA after : TFSentences(after, art, sents, k + 1, cnt))))

\* the body of the outer loop with a seen set of its own for every article
tf_article_own_seen(st, art, cnt) ==
    With(extract_entities(art.text), LAMBDA entities :
        TFSentences([st EXCEPT !.seen = {}], art, entities.sentences, 1, cnt))

\* the body of the outer for-loop: one article
tf_article(st, art, cnt) ==
    With(extract_entities(art.text), LAMBDA entities :
        TFSentences(st, art, entities.sentences, 1, cnt))

\* the outer for-loop from article k on, with its break
RECURSIVE TFLoop(_, _, _, _)
TFLoop(st, as, k, cnt) ==
    IF k > Len(as) THEN st
    ELSE With(tf_article(st, as[k], cnt),
              LAMBDA after : IF Len(after.results) >= cnt \/ after.raised # "none"
                             THEN after
                             ELSE TFLoop(after, as, k + 1, cnt))

make_true_false(as, cnt, rng) == TFLoop(LoopStart(rng), as, 1, cnt)

\* the coin flips the article can take: one per sentence
TFDims(art) == Len(extract_entities(art.text).sentences)

TFUniverse == {A1, A2, A3, A4, A8}

\* article lists with the article whose number int() does not read, alone,
\* after another article, and as the second sentence of one article
TFLongLists == {<<A9>>, <<A8, A9>>, <<ArticleOf(A8.text \o A9.text)>>}

TFInit ==
    /\ pc = "tf"
    /\ arts \in ListsUpTo(TFUniverse, MaxArts) \cup TFLongLists
    /\ count \in 0..MaxCount
    /\ idx = 0 /\ results = <<>> /\ seen = {} /\ built = <<>>
    /\ TextIdle /\ AsmIdle

\* whether the outer loop of make_true_false runs its body once more
TFLoopGoesOn == idx < Len(arts) /\ (idx = 0 \/ Len(results) < count)

TFArticle ==
    /\ pc = "tf"
    /\ TFLoopGoesOn
    /\ \E rng \in FlipTapes(TFDims(arts[idx + 1])) :
          \E after \in {tf_article([results |-> results, seen |-> seen,
                                   built |-> built, rng |-> rng,
                                   raised |-> "none"],
                                  arts[idx + 1], count)} :
              /\ after.raised = "none"
              /\ results' = after.results
              /\ seen' = after.seen
              /\ built' = after.built
    /\ idx' = idx + 1
    /\ UNCHANGED <<pc, arts, count, textVars, asmVars>>

\* the body of the outer loop when negate_statement raises: make_true_false
\* raises, the questions of the sentences before it appended and its own
\* sentence in seen
TFArticleRaises ==
    /\ pc = "tf"
    /\ TFLoopGoesOn
    /\ \E rng \in FlipTapes(TFDims(arts[idx + 1])) :
          \E after \in {tf_article([results |-> results, seen |-> seen,
                                   built |-> built, rng |-> rng,
                                   raised |-> "none"],
                                  arts[idx + 1], count)} :
              /\ after.raised # "none"
              /\ results' = after.results
              /\ seen' = after.seen
              /\ built' = after.built
    /\ pc' = "tf_raised"
    /\ UNCHANGED <<arts, count, idx, textVars, asmVars>>

TFReturn ==
    /\ pc = "tf"
    /\ ~TFLoopGoesOn
    /\ pc' = "tf_returned"
    /\ UNCHANGED <<genVars, textVars, asmVars>>

TFNext == TFArticle \/ TFArticleRaises \/ TFReturn

SpecTF == TFInit /\ [][TFNext]_vars

\* C8: within one make_true_false run no two questions are built from the same
\* sentence, none is built from a sentence of fewer than 6 characters, and the
\* one set of used sentences holds the sentences of all the articles of the run.
TrueFalseDedup ==
    pc \in {"tf", "tf_returned"} =>
        /\ Len(built) = Len(results)
        /\ \A i \in 1..Len(built) : \A j \in 1..Len(built) :
              i # j => built[i].base # built[j].base
        /\ \A i \in 1..Len(built) : Len(built[i].base) >= 6
        /\ seen = {built[i].base : i \in 1..Len(built)}

\* the same article twice in the list, and fewer questions than asked for: the
\* second pass found every sentence used (or too short)
TrueFalseDedupWitness ==
    /\ pc = "tf_returned"
    /\ Len(arts) = 2 /\ arts[1] = arts[2] /\ idx = 2
    /\ Len(results) >= 1
    /\ Len(results) < count

----------------------------------------------------------------------------
(* question_generator.py: build_distractor_pool, sample_distractors *)

\* the entries one article adds to the pool
PoolEntries(art) ==
    LET kws == pick_keywords(extract_entities(art.text), 4)
    IN  [k \in 1..Len(kws) |-> Distractor(kws[k])]

RECURSIVE PoolOf(_)
PoolOf(as) ==
    IF as = <<>> THEN <<>>
    ELSE PoolOf(Slice(as, 0, Len(as) - 1)) \o PoolEntries(as[Len(as)])

\* the pool without its de-duplication
build_pool_with_duplicates(as) == PoolOf(as)

build_distractor_pool(as) == Dedup(PoolOf(as))

\* the list sample_distractors samples from
DistractorCandidates(pool, key, n) ==
    LET KeyFree(p) == ~Contains(p, key)
        candidates == SelectSeq(pool, KeyFree)
    IN  IF Len(candidates) < n THEN pool ELSE candidates

\* yields the sampled list and the rng after it
sample_distractors(pool, key, n, rng) ==
    LET candidates == DistractorCandidates(pool, key, n)
    IN  sample(rng, candidates, Min(n, Len(candidates)))

\* options.index(x), 0-based; x is in options
IndexOf(options, x) ==
    (CHOOSE i \in 1..Len(options) :
        options[i] = x /\ \A j \in 1..(i - 1) : options[j] # x) - 1

\* art["text"][:50]
First50(text) == Slice(text, 0, Min(50, Len(text)))

----------------------------------------------------------------------------
(* question_generator.py: make_single_choice *)

\* the answer letter taken from where correct stood before the shuffle
single_answer_before_shuffle(options, correct) == Letter(0)

\* ans = options.index(correct); chr(ord('A') + ans)
single_answer(options, correct) == Letter(IndexOf(options, correct))

\* the body of the for-loop after its break test: one article
sc_article(st, art, pool) ==
    With(extract_entities(art.text), LAMBDA entities :
    With(pick_keywords(entities, 5), LAMBDA kws :
        IF kws = <<>> THEN st
        ELSE
        LET hasSents == entities.sentences # <<>>
            stem == IF hasSents THEN choice(st.rng, entities.sentences)
                    ELSE First50(art.text)
            rng1 == IF hasSents THEN Drawn(st.rng, Len(entities.sentences))
                    ELSE st.rng
            key == choice(rng1, kws)
            correct == CorrectSingle(key)
            qtext == SingleText(art.article_no, stem)
        IN  With(sample_distractors(pool, key, 3, Drawn(rng1, Len(kws))),
                 LAMBDA drawn :
            With(shuffle(drawn.rng, <<correct>> \o drawn.v), LAMBDA shuffled :
            IF qtext \in st.seen THEN [st EXCEPT !.rng = shuffled.rng]
            ELSE [ results |-> Append(st.results,
                       [ type |-> "single",
                         question |-> qtext,
                         options |-> shuffled.v,
                         answer |-> single_answer(shuffled.v, correct),
                         source |-> Source(art) ]),
                   seen |-> st.seen \cup {qtext},
                   built |-> Append(st.built, [key |-> key, correct |-> correct]),
                   rng |-> shuffled.rng,
                   raised |-> st.raised ]))))

\* the for-loop from article k on
RECURSIVE SCLoop(_, _, _, _, _)
SCLoop(st, as, k, cnt, pool) ==
    IF k > Len(as) \/ Len(st.results) >= cnt THEN st
    ELSE With(sc_article(st, as[k], pool),
              LAMBDA after : SCLoop(after, as, k + 1, cnt, pool))

make_single_choice(as, cnt, rng) ==
    With(build_distractor_pool(as),
         LAMBDA distractor_pool : SCLoop(LoopStart(rng), as, 1, cnt, distractor_pool))

\* the raw values the draws after the key take: the sample, then the shuffle
SCRestDims(pool, key) ==
    LET n == Len(DistractorCandidates(pool, key, 3))
        k == Min(3, n)
    IN  Falling(n, k) \o Falling(k + 1, k)

\* every rng the body can tell apart on this article
SCTapes(art, pool) ==
    LET entities == extract_entities(art.text)
        kws == pick_keywords(entities, 5)
        stems == IF entities.sentences # <<>>
                 THEN Tapes(<<Len(entities.sentences)>>)
                 ELSE {<<>>}
    IN  IF kws = <<>> THEN {<<>>}
        ELSE UNION { UNION { {a \o <<Output(b, Len(kws))>> \o rest :
                                 rest \in Tapes(SCRestDims(pool, kws[b + 1]))} :
                             b \in 0..(Len(kws) - 1) } :
                     a \in stems }

\* candidate lists: every list over the small articles, and some with more keywords
SCSmall == {A1, A3}
SCLists == ListsUpTo(SCSmall, MaxArts) \cup {<<A2>>, <<A4>>, <<A5>>}

SCInit ==
    /\ pc = "sc"
    /\ arts \in SCLists
    /\ count \in 0..MaxCount
    /\ idx = 0 /\ results = <<>> /\ seen = {} /\ built = <<>>
    /\ TextIdle /\ AsmIdle

SCLoopGoesOn == idx < Len(arts) /\ Len(results) < count

SCArticle ==
    /\ pc = "sc"
    /\ SCLoopGoesOn
    /\ \E pool \in {build_distractor_pool(arts)} :
           \E rng \in SCTapes(arts[idx + 1], pool) :
              \E after \in {sc_article([results |-> results, seen |-> seen,
                                       built |-> built, rng |-> rng,
                                   raised |-> "none"],
                                      arts[idx + 1], pool)} :
                  /\ results' = after.results
                  /\ seen' = after.seen
                  /\ built' = after.built
    /\ idx' = idx + 1
    /\ UNCHANGED <<pc, arts, count, textVars, asmVars>>

SCReturn ==
    /\ pc = "sc"
    /\ ~SCLoopGoesOn
    /\ pc' = "sc_returned"
    /\ UNCHANGED <<genVars, textVars, asmVars>>

SCNext == SCArticle \/ SCReturn

SpecSC == SCInit /\ [][SCNext]_vars

\* C3: in every single-choice question exactly one option is the correct string
\* built from the chosen key, and answer is the letter of that option's position
\* after the shuffle; also when the distractors come from the unfiltered pool.
SingleAnswerValid ==
    pc \in {"sc", "sc_returned"} =>
        /\ Len(built) = Len(results)
        /\ \A i \in 1..Len(results) :
              LET q == results[i]
                  at == {j \in 1..Len(q.options) : q.options[j] = CorrectSingle(built[i].key)}
              IN  /\ Cardinality(at) = 1
                  /\ \A j \in at : q.answer = <<65 + (j - 1)>>

\* a question whose distractors came from the unfiltered pool (one of them is
\* about the key itself) and whose correct option the shuffle moved off A
SingleAnswerValidWitness ==
    /\ pc = "sc_returned"
    /\ \E i \in 1..Len(results) :
          /\ \E j \in 1..Len(results[i].options) :
                results[i].options[j] = Distractor(built[i].key)
          /\ results[i].answer # <<65>>

\* C4 as claimed: every single-choice question has exactly 4 options.
SingleFourOptions ==
    pc \in {"sc", "sc_returned"} =>
        \A i \in 1..Len(results) : Len(results[i].options) = 4

----------------------------------------------------------------------------
(* question_generator.py: make_multiple_choice *)

\* "|".join(kws)
RECURSIVE Join(_)
Join(kws) ==
    IF Len(kws) = 0 THEN <<>>
    ELSE IF Len(kws) = 1 THEN kws[1]
    ELSE kws[1] \o <<Ch.bar>> \o Join(Tail(kws))

\* [chr(ord('A') + i) for i, opt in enumerate(options) if opt in correct]
RECURSIVE AnswerLetters(_, _, _)
AnswerLetters(options, correct, i) ==
    IF i >= Len(options) THEN <<>>
    ELSE (IF \E k \in 1..Len(correct) : correct[k] = options[i + 1]
          THEN <<Letter(i)>> ELSE <<>>)
         \o AnswerLetters(options, correct, i + 1)

\* results.append({...}) of one article, the options shuffled
mc_question(st, art, stem, kws, num_correct, correct, shuffled) ==
    [ results |-> Append(st.results,
          [ type |-> "multiple",
            question |-> MultipleText(art.article_no, stem),
            options |-> shuffled.v,
            answer |-> AnswerLetters(shuffled.v, correct, 0),
            source |-> Source(art) ]),
      seen |-> st.seen,
      built |-> Append(st.built,
          [ num_correct |-> num_correct,
            correct |-> {correct[k] : k \in 1..num_correct},
            keywords |-> Len(kws) ]),
      rng |-> shuffled.rng,
      raised |-> st.raised ]

\* the body of the for-loop after its break test: one article
mc_article(st, art, pool) ==
    With(extract_entities(art.text), LAMBDA entities :
    With(pick_keywords(entities, 6), LAMBDA kws :
        IF Len(kws) < 2 THEN st
        ELSE
        LET hasSents == entities.sentences # <<>>
            stem == IF hasSents THEN choice(st.rng, entities.sentences)
                    ELSE First50(art.text)
            rng1 == IF hasSents THEN Drawn(st.rng, Len(entities.sentences))
                    ELSE st.rng
            num_correct == randint(rng1, 2, Min(4, Len(kws)))
        IN  With(sample(Drawn(rng1, Min(4, Len(kws)) - 1), kws, num_correct),
                 LAMBDA picked :
            With([k \in 1..num_correct |-> CorrectMultiple(picked.v[k])], LAMBDA correct :
            With(sample_distractors(pool, Join(kws), 5 - num_correct, picked.rng),
                 LAMBDA drawn :
            With(shuffle(drawn.rng, correct \o drawn.v), LAMBDA shuffled :
                mc_question(st, art, stem, kws, num_correct, correct, shuffled)))))))

\* the for-loop from article k on
RECURSIVE MCLoop(_, _, _, _, _)
MCLoop(st, as, k, cnt, pool) ==
    IF k > Len(as) \/ Len(st.results) >= cnt THEN st
    ELSE With(mc_article(st, as[k], pool),
              LAMBDA after : MCLoop(after, as, k + 1, cnt, pool))

make_multiple_choice(as, cnt, rng) ==
    With(build_distractor_pool(as),
         LAMBDA distractor_pool : MCLoop(LoopStart(rng), as, 1, cnt, distractor_pool))

\* candidate lists: every list over articles with fewer than 2 keywords, and
\* some over articles with 2 (A1, A6), 3 (A7), 4 (A5) and 5 (A10) keywords
MCSkipped == {A3, A4}
MCLists == ListsUpTo(MCSkipped, MaxArts)
           \cup {<<A6>>, <<A6, A6>>, <<A1>>, <<A1, A4>>, <<A3, A6>>, <<A7>>,
                 <<A5>>, <<A10>>}

MCInit ==
    /\ pc = "mc"
    /\ arts \in MCLists
    /\ count \in 0..MaxCount
    /\ idx = 0 /\ results = <<>> /\ seen = {} /\ built = <<>>
    /\ TextIdle /\ AsmIdle

MCLoopGoesOn == idx < Len(arts) /\ Len(results) < count

\* one iteration of the for-loop. The rng is taken draw by draw: every \E over
\* Tapes binds the outputs one call of the body consumes, each of its results
\* once, so that the iteration has every outcome it has in the code
MCArticle ==
    /\ pc = "mc"
    /\ MCLoopGoesOn
    /\ \E st \in {[results |-> results, seen |-> seen, built |-> built,
                    rng |-> <<>>, raised |-> "none"]} :
       \E art \in {arts[idx + 1]} :
       \E pool \in {build_distractor_pool(arts)} :
       \E entities \in {extract_entities(art.text)} :
       \E kws \in {pick_keywords(entities, 6)} :
          IF Len(kws) < 2 THEN UNCHANGED <<results, built>>
          ELSE
          \* stem = rng.choice(entities["sentences"]) if ... else art["text"][:50]
          \E rng0 \in (IF entities.sentences # <<>>
                        THEN Tapes(<<Len(entities.sentences)>>) ELSE {<<>>}) :
          \E stem \in {IF entities.sentences # <<>>
                        THEN choice(rng0, entities.sentences)
                        ELSE First50(art.text)} :
          \* num_correct = rng.randint(2, min(4, len(kws)))
          \E rng1 \in Tapes(<<Min(4, Len(kws)) - 1>>) :
          \E num_correct \in {randint(rng1, 2, Min(4, Len(kws)))} :
          \* rng.sample(kws, num_correct)
          \E rng2 \in Tapes(Falling(Len(kws), num_correct)) :
          \E picked \in {sample(rng2, kws, num_correct)} :
          \E correct \in {<<>> \o [k \in 1..num_correct |->
                                        CorrectMultiple(picked.v[k])]} :
          \* sample_distractors(distractor_pool, "|".join(kws), n=5 - num_correct, rng=rng)
          \E n \in {Len(DistractorCandidates(pool, Join(kws), 5 - num_correct))} :
          \E rng3 \in Tapes(Falling(n, Min(5 - num_correct, n))) :
          \E drawn \in {sample_distractors(pool, Join(kws), 5 - num_correct, rng3)} :
          \* options = correct + distractors; rng.shuffle(options)
          \E options \in {correct \o drawn.v} :
          \E rng4 \in Tapes(Falling(Len(options), Len(options) - 1)) :
          \E after \in {mc_question(st, art, stem, kws, num_correct, correct,
                                     shuffle(rng4, options))} :
              /\ results' = after.results
              /\ built' = after.built
    /\ idx' = idx + 1
    /\ UNCHANGED <<pc, arts, count, seen, textVars, asmVars>>

MCReturn ==
    /\ pc = "mc"
    /\ ~MCLoopGoesOn
    /\ pc' = "mc_returned"
    /\ UNCHANGED <<genVars, textVars, asmVars>>

MCNext == MCArticle \/ MCReturn

SpecMC == MCInit /\ [][MCNext]_vars

\* C5: in every multiple-choice question, with k the number of correct options
\* drawn (2 <= k <= min(4, number of keywords)), answer holds exactly k letters,
\* they are exactly the positions of the k correct strings after the shuffle, no
\* two options have the same text, and answer is non-empty and leaves at least
\* one option (a distractor) out.
MultipleAnswerValid ==
    pc \in {"mc", "mc_returned"} =>
        /\ Len(built) = Len(results)
        /\ \A i \in 1..Len(results) :
              LET q == results[i]
                  k == built[i].num_correct
                  at == {j \in 1..Len(q.options) : q.options[j] \in built[i].correct}
                  letters == {q.answer[j] : j \in 1..Len(q.answer)}
              IN  /\ 2 <= k /\ k <= Min(4, built[i].keywords)
                  /\ Cardinality(built[i].correct) = k
                  /\ Len(q.answer) = k
                  /\ Cardinality(letters) = k
                  /\ letters = {<<65 + (j - 1)>> : j \in at}
                  /\ \A a \in 1..Len(q.options) : \A b \in 1..Len(q.options) :
                        a # b => q.options[a] # q.options[b]
                  /\ q.answer # <<>>
                  /\ Len(q.answer) < Len(q.options)

\* a question of an article with 5 keywords, 4 of them drawn as correct
\* options, the one distractor not the last of the 5 options
MultipleAnswerValidWitness ==
    /\ pc = "mc_returned"
    /\ \E i \in 1..Len(results) :
          /\ built[i].keywords = 5
          /\ built[i].num_correct = 4
          /\ Len(results[i].options) = 5
          /\ Len(results[i].answer) = 4
          /\ results[i].answer[4] = <<69>>

----------------------------------------------------------------------------
(* question_generator.py: make_fill_blank *)

\* the sentence the blank goes into, with no fall-back to the article text
fb_sentence_as_picked(picked, target, text) == picked

\* if target not in sent: sent = art["text"]
fb_sentence(picked, target, text) ==
    IF ~Contains(picked, target) THEN text ELSE picked

\* the body of the for-loop after its break test: one article
fb_article(st, art) ==
    With(extract_entities(art.text), LAMBDA entities :
    LET candidates == entities.terms \o entities.numbers
    IN  IF candidates = <<>> THEN st
        ELSE
        LET target == choice(st.rng, candidates)
            rng1 == Drawn(st.rng, Len(candidates))
            hasSents == entities.sentences # <<>>
            picked == IF hasSents THEN choice(rng1, entities.sentences) ELSE art.text
            sent == fb_sentence(picked, target, art.text)
            blanked == ReplaceFirst(sent, target, BlankMarker)
        IN  [ results |-> Append(st.results,
                  [ type |-> "fill",
                    question |-> blanked,
                    options |-> None,
                    answer |-> target,
                    source |-> Source(art) ]),
              seen |-> st.seen,
              built |-> Append(st.built, [art |-> art, picked |-> picked]),
              rng |-> IF hasSents THEN Drawn(rng1, Len(entities.sentences))
                      ELSE rng1,
              raised |-> st.raised ])

\* the for-loop from article k on
RECURSIVE FBLoop(_, _, _, _)
FBLoop(st, as, k, cnt) ==
    IF k > Len(as) \/ Len(st.results) >= cnt THEN st
    ELSE With(fb_article(st, as[k]),
              LAMBDA after : FBLoop(after, as, k + 1, cnt))

make_fill_blank(as, cnt, rng) == FBLoop(LoopStart(rng), as, 1, cnt)

\* the raw values of the two draws: the target, the sentence
FBDims(art) ==
    LET entities == extract_entities(art.text)
        n == Len(entities.terms) + Len(entities.numbers)
    IN  IF n = 0 THEN <<>>
        ELSE IF entities.sentences = <<>> THEN <<n>>
        ELSE <<n, Len(entities.sentences)>>

\* the pieces generated article texts are put together from: 应当, the digit 9,
\* a full stop, a space, a line feed, and 法
FBPieces == { <<Ch.ying, Ch.dang>>, <<Ch.d9>>, <<Ch.stop>>, <<Ch.sp>>, <<Ch.nl>>,
              <<Ch.law>> }

FBUniverse == {A1, A2, A3, A4, A5}
FBLists == ListsUpTo(FBUniverse, MaxArts)
           \cup {<<ArticleOf(t)>> : t \in PieceStrings(FBPieces, MaxPieces + 1)}

FBInit ==
    /\ pc = "fb"
    /\ arts \in FBLists
    /\ count \in 0..MaxCount
    /\ idx = 0 /\ results = <<>> /\ seen = {} /\ built = <<>>
    /\ TextIdle /\ AsmIdle

FBLoopGoesOn == idx < Len(arts) /\ Len(results) < count

FBArticle ==
    /\ pc = "fb"
    /\ FBLoopGoesOn
    /\ \E rng \in Tapes(FBDims(arts[idx + 1])) :
          \E after \in {fb_article([results |-> results, seen |-> seen,
                                   built |-> built, rng |-> rng,
                                   raised |-> "none"],
                                  arts[idx + 1])} :
              /\ results' = after.results
              /\ built' = after.built
    /\ idx' = idx + 1
    /\ UNCHANGED <<pc, arts, count, seen, textVars, asmVars>>

FBReturn ==
    /\ pc = "fb"
    /\ ~FBLoopGoesOn
    /\ pc' = "fb_returned"
    /\ UNCHANGED <<genVars, textVars, asmVars>>

FBNext == FBArticle \/ FBReturn

SpecFB == FBInit /\ [][FBNext]_vars

\* whether t is a sentence of the normalized text, or the text itself
IsSpanOf(t, text) ==
    \/ t = text
    \/ LET sents == split_sentences(normalize_text(text))
       IN  \E k \in 1..Len(sents) : sents[k] = t

\* C6: in every fill question the blank marker occurs exactly once, and putting
\* answer back in its place gives a sentence of the normalized article text, or
\* the whole article text, that contains answer: the marker never goes into a
\* sentence that lacks the target.
FillBlankContainment ==
    pc \in {"fb", "fb_returned"} =>
        /\ Len(built) = Len(results)
        /\ \A i \in 1..Len(results) :
              LET q == results[i]
                  restored == ReplaceFirst(q.question, BlankMarker, q.answer)
              IN  /\ Occurrences(q.question, BlankMarker) = 1
                  /\ Contains(restored, q.answer)
                  /\ IsSpanOf(restored, built[i].art.text)
                  /\ q.answer # <<>>

\* the rng picked a sentence without the target and the blank went into the full
\* article text, which is no sentence of the normalized text
FillBlankContainmentWitness ==
    /\ pc = "fb_returned"
    /\ \E i \in 1..Len(results) :
          /\ ~Contains(built[i].picked, results[i].answer)
          /\ Occurrences(results[i].question, BlankMarker) = 1
          /\ normalize_text(built[i].art.text) # built[i].art.text

----------------------------------------------------------------------------
(* question_generator.py: make_short_answers *)

RECURSIVE ShortLoop(_, _, _, _, _)
ShortLoop(res, taken, as, k, cnt) ==
    IF k > Len(as) \/ Len(res) >= cnt THEN res
    ELSE IF as[k].article_no \in taken THEN ShortLoop(res, taken, as, k + 1, cnt)
    ELSE ShortLoop(Append(res, [ type |-> "short",
                                 question |-> ShortText(as[k].article_no),
                                 options |-> None,
                                 answer |-> as[k].text,
                                 source |-> Source(as[k]) ]),
                   taken \cup {as[k].article_no}, as, k + 1, cnt)

make_short_answers(as, cnt) == ShortLoop(<<>>, {}, as, 1, cnt)

----------------------------------------------------------------------------
(* question_generator.py: weighted_sample, assemble_exam *)

\* d.get(key, default) for a dict d, modelled as a function on its keys
Get(d, key, default) == IF key \in DOMAIN d THEN d[key] ELSE default

EmptyDict == [k \in {} |-> 0]

\* the value under the key important_articles: None (a key with no value in
\* the YAML file) or a list of article numbers
PyNone == [none |-> TRUE, v |-> <<>>]
PyList(l) == [none |-> FALSE, v |-> l]

\* the list weights of weighted_sample; imp_list is (... or [])
WeightsOf(as, weights_cfg) ==
    LET listed == Get(weights_cfg, "important_articles", PyList(<<>>))
        imp_list == IF listed.none THEN {} ELSE {listed.v[k] : k \in 1..Len(listed.v)}
        imp_w == Get(weights_cfg, "important_weight", 1)
        default_w == Get(weights_cfg, "default", 1)
    IN  [k \in 1..Len(as) |-> IF as[k].article_no \in imp_list THEN imp_w ELSE default_w]

RECURSIVE SumOf(_)
SumOf(ws) == IF ws = <<>> THEN 0 ELSE ws[1] + SumOf(Tail(ws))

\* itertools.accumulate(weights)
CumWeights(ws) == [i \in 1..Len(ws) |-> SumOf(SubSeq(ws, 1, i))]

\* min(k, max(1, len(population)))
sample_size(k, n) == Min(k, Max(1, n))

\* whether random() * total >= c for whole numbers 0 < total < 2^15 and
\* -2^15 < c < 2^15. random() is n / 2^53 with n = a * 2^26 + b, a the 27
\* highest bits of one output and b the 26 highest bits of the next. The float
\* product is n * total / 2^53 rounded to 53 bits (ties to even), which reaches
\* c exactly when n * total + slack >= c * 2^53, slack the largest power of two
\* below c (none for c <= 1): always for c <= 0, never for c > total. The sum
\* is taken in digits of 13 bits, lowest first.
ScaledAtLeast(rng, total, c) ==
    LET a == Head(rng) \div 16
        b == rng[2] \div 32
        slack == IF c < 2 THEN 0 ELSE Pow2(BitLength(c - 1) - 1)
        carry0 == ((b % Pow2(13)) * total + slack) \div Pow2(13)
        carry1 == ((b \div Pow2(13)) * total + carry0) \div Pow2(13)
        carry2 == ((a % Pow2(13)) * total + carry1) \div Pow2(13)
        carry3 == (((a \div Pow2(13)) % Pow2(13)) * total + carry2) \div Pow2(13)
    IN  (a \div Pow2(26)) * total + carry3 >= 2 * c

\* bisect(cum_weights, x, lo, hi), x = random() * total: the binary search
\*   while lo < hi: mid = (lo + hi) // 2
\*                  if x < a[mid]: hi = mid  else: lo = mid + 1
\* on the list as it is, ascending or not (a weight may be below zero)
RECURSIVE bisect(_, _, _, _)
bisect(rng, cum, lo, hi) ==
    IF lo >= hi THEN lo
    ELSE LET mid == (lo + hi) \div 2
         IN  IF ~ScaledAtLeast(rng, cum[Len(cum)], cum[mid + 1])
             THEN bisect(rng, cum, lo, mid)
             ELSE bisect(rng, cum, mid + 1, hi)

\* population[bisect(cum_weights, random() * total, 0, hi)], hi = n - 1: the
\* index chosen
ChoicesIndex(rng, cum) == bisect(rng, cum, 0, Len(cum) - 1)

\* random.choices(population, weights=weights, k=k) of the generator rng, the
\* total of the weights above zero: the chosen indices (0-based) and the
\* generator after them
RECURSIVE ChoicesFrom(_, _, _, _)
ChoicesFrom(rng, cum, k, chosen) ==
    IF k = 0 THEN [v |-> chosen, rng |-> rng]
    ELSE ChoicesFrom(DrawnRandom(rng), cum, k - 1,
                     Append(chosen, ChoicesIndex(rng, cum)))

\* weighted_sample(articles, weights_cfg, k), the module-level generator being
\* rng: raises IndexError (cum_weights[-1] of an empty list) or ValueError
\* (total of the weights not above zero), or returns the chosen articles;
\* yields the generator after it as well
weighted_sample(as, weights_cfg, k, rng) ==
    LET weights == WeightsOf(as, weights_cfg)
        n == Len(as)
    IN  IF n = 0 THEN [raised |-> "IndexError", v |-> <<>>, rng |-> rng]
        ELSE IF SumOf(weights) <= 0 THEN [raised |-> "ValueError", v |-> <<>>, rng |-> rng]
        ELSE With(ChoicesFrom(rng, CumWeights(weights), sample_size(k, n), <<>>),
                  LAMBDA chosen_idx :
                      [ raised |-> "none",
                        v |-> [j \in 1..Len(chosen_idx.v) |-> as[chosen_idx.v[j] + 1]],
                        rng |-> chosen_idx.rng ])

\* the first 32-bit outputs, each without its lowest bit, of the Mersenne
\* Twister after random.seed(seed) or random.Random(seed), seed = 0, 1, 2, 3
MTOutputs ==
    <<
    \* seed 0
    <<
        1813382118, 827307999, 1627694678, 1911784257, 903170602, 86939546,
        556019485, 2073320061, 1097954097, 1043521778, 869589436, 1971893209,
        1683194652, 1782095536, 651359108, 2078334659, 1023484162, 768905175,
        1252803391, 1914826684, 1950157577, 469102188, 1083806779, 299088013,
        605242169, 300101783, 1623077180, 203647506, 1327937310, 1716703952,
        537958267, 2120122977, 1953665205, 1143671689, 2110515738, 1514345872,
        1739928271, 1292574851, 1937386629, 315597204, 666036844, 212092662,
        1567301757, 158360665, 1930240526, 1826378634, 1468844309, 709093135,
        1013918763, 1202190735, 216254202, 759761091, 932376913, 679027242,
        1311869788, 1375298783, 1960676318, 439112612, 2075771360, 1186535554,
        1024370691, 950676745, 1858238927, 1119598413, 559402977, 133744385,
        1728784093, 1972388339, 1178322771, 1967083172, 30154324, 200299806,
        1545554038, 1804082152, 856467032, 1525257611, 1771341094, 1685877224,
        1434848064, 1342748146, 2454178, 1314038990, 1059950399, 1778252349,
        1863162773, 715402257, 523794613, 1568261309, 698371045, 1511060853,
        1869322740, 135257702, 410313446, 1969283239, 1218720039, 476105495,
        512423803, 1725170358, 2077776873, 306004377 >>,
    \* seed 1
    <<
        288545018, 1222356005, 1819850095, 1722851096, 1640193506, 135520872,
        547756574, 253228484, 1063938749, 1634154402, 965274705, 1014138928,
        1399285261, 815217483, 1693770507, 450874518, 201561926, 1047664193,
        60875732, 1918383731, 1794791897, 837108038, 929360195, 1304463163,
        1636984002, 1647458476, 4522707, 1494289708, 956461718, 571940513,
        1549495423, 1721909018, 491263128, 1269492320, 2029953361, 219531151,
        1935800732, 681674953, 65691502, 47936369, 54644572, 1394889710,
        1162674447, 19767455, 2016807461, 1892435308, 818629863, 1474212860,
        465143663, 2080998945, 906488442, 1558756592, 62364611, 1133075550,
        476079230, 1640035399, 940356432, 2016845815, 1064748682, 1187256901,
        500545052, 742385984, 495782127, 1453521182, 469828692, 1634122829,
        986990922, 2044929403, 622301269, 1989657836, 46148794, 893739613,
        1798685007, 1967674488, 1194976547, 1980384858, 1379316649, 214748959,
        399230659, 1351525069, 2131470744, 1554002934, 1846721118, 636493528,
        259609208, 1595895301, 714457467, 1923233514, 1549375956, 2090043303,
        1527272699, 1075459163, 2010990846, 2077068247, 906467884, 1090314491,
        1782488070, 1954607534, 1439470245, 407699194 >>,
    \* seed 2
    <<
        2053067961, 1853513164, 2035444029, 1823332324, 121443151, 196676841,
        182261230, 775365019, 1794220178, 363104290, 1580483516, 1737232767,
        1438235079, 1833595380, 661718012, 540271020, 1301255191, 455736430,
        1303096808, 76739130, 1248126120, 1462965050, 340124608, 2146879770,
        924856009, 1371106759, 845103140, 1725866985, 1552656621, 1847360140,
        2136358747, 1093214019, 2038811261, 798993397, 1168611296, 2009425545,
        955317097, 1078181303, 576042599, 1935329011, 77146899, 1870529061,
        58937378, 781715036, 998351952, 2001125236, 683898649, 1949378517,
        816075831, 909697619, 1915103274, 1898514201, 1129045480, 353236198,
        1203686844, 381041855, 507071164, 495215473, 51234840, 379503271,
        698239130, 372779023, 293555409, 1095574634, 1095697368, 772431397,
        2144656632, 1103242656, 1448434127, 1202355303, 390505925, 2137127769,
        1918930265, 956999483, 1711028898, 890499183, 1577115623, 1128214282,
        1946895024, 1950941809, 1638284111, 782232769, 1695970142, 1274500530,
        759751757, 777145085, 2106631151, 1844617189, 2065666536, 957281565,
        346141401, 2050703251, 1619211417, 858700314, 1535774854, 1586110420,
        990863337, 1406410608, 1138930233, 536659961 >>,
    \* seed 3
    <<
        511025150, 1272686665, 1168723365, 280080820, 794472658, 1966976506,
        1296908414, 1018022223, 1343724115, 1247370366, 140722156, 1300515102,
        28278034, 1951672655, 1798451156, 1007668780, 556958498, 1182801014,
        503221913, 411767315, 2138131003, 1540063683, 1009883194, 1161732570,
        1796287290, 1180323947, 1022960728, 852840001, 1372388373, 1849030896,
        323446306, 498048707, 1363352895, 325606562, 1864113090, 1988216538,
        1123523096, 837382728, 1591826252, 32527369, 1441845164, 1669098783,
        137506472, 342308754, 1628287049, 2056209297, 1269376693, 91888745,
        646967375, 1675201516, 66597223, 1768604193, 1858705584, 578600102,
        1015220939, 1277214859, 1543662608, 1976021287, 1887236124, 832383095,
        1533581380, 1692450872, 1978044335, 916835693, 848177449, 1563638617,
        1719938488, 1238904066, 954816441, 2070375557, 2009157188, 288083023,
        1887351790, 784947489, 209281550, 77065967, 291990909, 1062754042,
        465975918, 554010463, 2073352804, 1443197553, 936650469, 1672830881,
        1345716944, 1836582957, 646448839, 904409541, 1089296008, 1789878482,
        828641474, 1232704445, 753574530, 1146977644, 1256437082, 875262509,
        1254671178, 499046146, 1941758520, 723197349 >>
    >>

\* random.Random(seed), and the module-level generator after random.seed(seed)
RandomOf(sd) == SubSeq(MTOutputs[sd + 1], 1, TapeLen)

\* the statements of assemble_exam that draw a working subset: the key of
\* counts each reads, and the statement after it
CountKey == [tf_arts |-> "true_false", sc_arts |-> "single_choice",
             mc_arts |-> "multiple_choice", fb_arts |-> "fill_blank"]
StepAfter == [tf_arts |-> "sc_arts", sc_arts |-> "mc_arts", mc_arts |-> "fb_arts",
              fb_arts |-> "short_important"]

Counts == Get(cfg, "counts", EmptyDict)
Weights == Get(cfg, "weights", EmptyDict)
CountFor(key) == Get(Counts, key, 0)

NoSubsets == [tf_arts |-> <<>>, sc_arts |-> <<>>, mc_arts |-> <<>>, fb_arts |-> <<>>,
              short_important |-> <<>>]

\* the exam of a run that raised before building one
Raised(what) == [raised |-> what, true_false |-> <<>>, single |-> <<>>,
                 multiple |-> <<>>, fill |-> <<>>, short |-> <<>>]

\* short_important of assemble_exam; set(None) raises TypeError
ShortCandidates(as, weights_cfg, cnt) ==
    LET listed == Get(weights_cfg, "important_articles", PyList(<<>>))
        imp == {listed.v[k] : k \in 1..Len(listed.v)}
        IsImportant(a) == a.article_no \in imp
        short_important == SelectSeq(as, IsImportant)
    IN  IF listed.none THEN [raised |-> "TypeError", v |-> <<>>]
        ELSE IF Len(short_important) < cnt
        THEN LET all == short_important \o as
             IN  [raised |-> "none", v |-> Slice(all, 0, Min(cnt, Len(all)))]
        ELSE [raised |-> "none", v |-> short_important]

\* the dict exam: the five generator calls, the rng handed from one to the
\* next; make_true_false raising, assemble_exam raises
BuildExam(sub, rng) ==
    With(make_true_false(sub.tf_arts, CountFor("true_false"), rng), LAMBDA tf :
    IF tf.raised # "none" THEN Raised(tf.raised) ELSE
    With(make_single_choice(sub.sc_arts, CountFor("single_choice"), tf.rng), LAMBDA sc :
    With(make_multiple_choice(sub.mc_arts, CountFor("multiple_choice"), sc.rng), LAMBDA mc :
    With(make_fill_blank(sub.fb_arts, CountFor("fill_blank"), mc.rng), LAMBDA fb :
        [ raised |-> "none",
          true_false |-> tf.results,
          single |-> sc.results,
          multiple |-> mc.results,
          fill |-> fb.results,
          short |-> make_short_answers(sub.short_important,
                                       CountFor("short_answer")) ]))))

\* the configurations: counts with no key, one key, or all five keys
CountKeys == {"true_false", "single_choice", "multiple_choice", "fill_blank",
              "short_answer"}
OneCount(key, n) == [k \in {key} |-> n]
AllCounts(n) == [k \in CountKeys |-> n]
CountsChoices == {EmptyDict}
                 \cup {OneCount(key, n) : key \in CountKeys, n \in 1..MaxCount}
                 \cup {AllCounts(n) : n \in 0..MaxCount}
WeightsChoices ==
    { EmptyDict,
      [k \in {"important_articles", "important_weight"} |->
          IF k = "important_articles" THEN PyList(<<A1.article_no>>) ELSE 3],
      [k \in {"important_articles", "default"} |->
          IF k = "important_articles" THEN PyList(<<A3.article_no>>) ELSE 0],
      [k \in {"important_articles"} |-> PyNone],
      [k \in {"important_articles", "important_weight", "default"} |->
          IF k = "important_articles" THEN PyList(<<A1.article_no>>)
          ELSE IF k = "important_weight" THEN 3 ELSE -1] }
ConfigOf(c, w) == [k \in {"counts", "weights"} |-> IF k = "counts" THEN c ELSE w]

AsmUniverse == {A1, A3, A6}

\* assemble_exam(articles, cfg, rng) called with rng = random.Random(seed), the
\* module-level generator as some earlier random.seed left it; one list has
\* three articles, so that its cumulative weights do not ascend when the default
\* weight is below zero
AsmInit ==
    /\ pc = "tf_arts"
    /\ \/ /\ articles \in ListsUpTo(AsmUniverse, MaxArts) \cup {<<A1, A6, A1>>}
          /\ cfg \in {EmptyDict} \cup {ConfigOf(c, w) : c \in CountsChoices,
                                                      w \in WeightsChoices}
       \/ /\ articles = <<A9>>
          /\ cfg = ConfigOf(OneCount("true_false", 1), EmptyDict)
    /\ seed \in 0..(NumSeeds - 1)
    /\ module_random \in {RandomOf(sd) : sd \in 0..(NumSeeds - 1)}
    /\ run = 1
    /\ subsets = NoSubsets
    /\ exam = <<>>
    /\ TextIdle /\ GenIdle

\* tf_arts = ..., sc_arts = ..., mc_arts = ..., fb_arts = weighted_sample(...)
AsmSample ==
    /\ pc \in {"tf_arts", "sc_arts", "mc_arts", "fb_arts"}
    /\ \E got \in {weighted_sample(articles, Weights, CountFor(CountKey[pc]) * 2,
                                   module_random)} :
          /\ got.raised = "none"
          /\ subsets' = [subsets EXCEPT ![pc] = got.v]
          /\ module_random' = got.rng
    /\ pc' = StepAfter[pc]
    /\ UNCHANGED <<articles, cfg, seed, run, exam, textVars, genVars>>

\* the same statements when random.choices raises: assemble_exam raises
AsmSampleRaises ==
    /\ pc \in {"tf_arts", "sc_arts", "mc_arts", "fb_arts"}
    /\ \E got \in {weighted_sample(articles, Weights, CountFor(CountKey[pc]) * 2,
                                   module_random)} :
          /\ got.raised # "none"
          /\ exam' = Append(exam, Raised(got.raised))
    /\ pc' = "returned"
    /\ UNCHANGED <<articles, cfg, seed, run, subsets, module_random, textVars, genVars>>

\* short_important = ...
AsmShort ==
    /\ pc = "short_important"
    /\ \E got \in {ShortCandidates(articles, Weights, CountFor("short_answer"))} :
          /\ got.raised = "none"
          /\ subsets' = [subsets EXCEPT !.short_important = got.v]
    /\ pc' = "exam"
    /\ UNCHANGED <<articles, cfg, seed, run, module_random, exam, textVars, genVars>>

\* the same statement when set(...) raises: assemble_exam raises
AsmShortRaises ==
    /\ pc = "short_important"
    /\ \E got \in {ShortCandidates(articles, Weights, CountFor("short_answer"))} :
          /\ got.raised # "none"
          /\ exam' = Append(exam, Raised(got.raised))
    /\ pc' = "returned"
    /\ UNCHANGED <<articles, cfg, seed, run, subsets, module_random, textVars, genVars>>

\* exam = {...}; return exam
AsmExam ==
    /\ pc = "exam"
    /\ exam' = Append(exam, BuildExam(subsets, RandomOf(seed)))
    /\ pc' = "returned"
    /\ UNCHANGED <<articles, cfg, seed, run, subsets, module_random, textVars, genVars>>

\* a second call in the same process with the same articles and cfg and an rng
\* created afresh from the same seed; the module-level generator goes on from
\* where the first call left it
AsmAgain ==
    /\ pc = "returned"
    /\ run = 1
    /\ run' = 2
    /\ subsets' = NoSubsets
    /\ pc' = "tf_arts"
    /\ UNCHANGED <<articles, cfg, seed, module_random, exam, textVars, genVars>>

\* a second call as main.py makes it: random.seed(seed) sets the module-level
\* generator, rng = random.Random(seed)
AsmAgainSeeded ==
    /\ pc = "returned"
    /\ run = 1
    /\ run' = 2
    /\ subsets' = NoSubsets
    /\ module_random' = RandomOf(seed)
    /\ pc' = "tf_arts"
    /\ UNCHANGED <<articles, cfg, seed, exam, textVars, genVars>>

AsmNext == \/ AsmSample \/ AsmSampleRaises \/ AsmShort \/ AsmShortRaises
           \/ AsmExam \/ AsmAgain \/ AsmAgainSeeded

SpecAssemble == AsmInit /\ [][AsmNext]_vars

\* the runs of assemble_exam that are over, and the lists of an exam
RunsOver == 1..Len(exam)
ExamLists(e) == <<e.true_false, e.single, e.multiple, e.fill, e.short>>
Questions(e) == UNION {{ExamLists(e)[t][q] : q \in 1..Len(ExamLists(e)[t])} : t \in 1..5}

\* C1: two independent runs of assemble_exam on the same articles and cfg,
\* each with an rng created afresh from the same seed, either both raise the
\* same error or return the same exam: the same questions in the same order
\* with the same answers, in all five lists.
AssembleDeterminism == Len(exam) = 2 => exam[1] = exam[2]

\* C2: on an empty article list assemble_exam does not raise, whatever the
\* config, and every one of the five lists of the exam it returns is empty.
EmptyInputResilience ==
    articles = <<>> =>
        \A r \in RunsOver :
            /\ exam[r].raised = "none"
            /\ \A t \in 1..5 : ExamLists(exam[r])[t] = <<>>

\* C9: once the four working subsets of a run are drawn from a non-empty
\* article list, each of them has exactly twice the target count of its type
\* entries, all of them articles of the list.
OversamplingSize ==
    (pc = "short_important" /\ articles # <<>>) =>
        \A step \in DOMAIN CountKey :
            /\ Len(subsets[step]) = 2 * CountFor(CountKey[step])
            /\ \A k \in 1..Len(subsets[step]) :
                   \E i \in 1..Len(articles) : subsets[step][k] = articles[i]

\* C10: no article with an empty text is in a working subset or in the
\* short-answer candidate list, and no question of a returned exam has such
\* an article as its source.
EmptyTextNeverSampled ==
    /\ \A step \in DOMAIN subsets :
           \A k \in 1..Len(subsets[step]) : subsets[step][k].text # <<>>
    /\ \A r \in RunsOver :
           \A q \in Questions(exam[r]) :
               \A i \in 1..Len(articles) :
                   articles[i].text = <<>> => q.source # Source(articles[i])

----------------------------------------------------------------------------
(* make_true_false: the answer key. *)

\* the sentences of the articles of arts, in the order the loops meet them
RECURSIVE SentencesOf(_)
SentencesOf(as) ==
    IF as = <<>> THEN <<>>
    ELSE extract_entities(Head(as).text).sentences \o SentencesOf(Tail(as))

\* '公民应当遵守法律。'
FirstSentenceOfA1 == <<20844, 27665, 24212, 24403, 36981, 23432, 27861, 24459, 12290>>

\* C12: every true/false question is built from one sentence of its articles
\* and one coin flip; flip false gives the sentence itself with answer 对, flip
\* true gives negate_statement of it, which differs from the sentence, with
\* answer 错. A whole run calls rng.random() exactly once per question, the
\* i-th question taking the i-th call. One article 公民应当遵守法律。禁止滥用权利。
\* with count 1 and flip false gives the first sentence with answer 对.
TrueFalseKey ==
    /\ pc \in {"tf", "tf_returned"} =>
          /\ Len(built) = Len(results)
          /\ \A i \in 1..Len(results) :
                /\ \E k \in 1..Len(SentencesOf(arts)) :
                       SentencesOf(arts)[k] = built[i].base
                /\ ~built[i].flip =>
                       /\ results[i].question = built[i].base
                       /\ results[i].answer = Dui
                /\ built[i].flip =>
                       /\ results[i].question = negate_statement(built[i].base).v
                       /\ results[i].question # built[i].base
                       /\ results[i].answer = Cuo
    /\ pc = "tf_returned" =>
          /\ \A rng \in FlipTapes(Len(SentencesOf(arts))) :
                \E r \in {make_true_false(arts, count, rng)} :
                    r.raised = "none" =>
                        /\ r.rng = SubSeq(rng, 2 * Len(r.results) + 1, Len(rng))
                        /\ \A i \in 1..Len(r.results) :
                               r.built[i].flip =
                                   random_lt_half(SubSeq(rng, 2 * i - 1, 2 * i))
          /\ (arts = <<A1>> /\ count = 1 /\ ~built[1].flip) =>
                /\ Len(results) = 1
                /\ results[1].question = FirstSentenceOfA1
                /\ results[1].answer = Dui

\* a returned run with a question labelled 对 and one labelled 错, the second
\* built by the appended literal
TrueFalseKeyWitness ==
    /\ pc = "tf_returned"
    /\ Len(results) = 2
    /\ ~built[1].flip /\ results[1].answer = Dui
    /\ built[2].flip /\ results[2].answer = Cuo
    /\ results[2].question = built[2].base \o Disclaimer

----------------------------------------------------------------------------
(* split_sentences applied to generated texts. *)

SplitPieces == { <<Ch.stop>>, <<Ch.semi>>, <<Ch.excl>>, <<Ch.ques>>,
                 <<Ch.aexcl>>, <<Ch.aques>>, <<Ch.asemi>>, <<Ch.adot>>,
                 <<Ch.law>>, <<Ch.sp>> }

SplitInit ==
    /\ pc = "split"
    /\ s \in PieceStrings(SplitPieces, MaxPieces)
    /\ out = <<>>
    /\ GenIdle /\ AsmIdle

Split ==
    /\ pc = "split"
    /\ out' = split_sentences(s)
    /\ pc' = "split_done"
    /\ UNCHANGED <<s, genVars, asmVars>>

SplitNext == Split

SpecSplit == SplitInit /\ [][SplitNext]_vars

\* the terminators of the specification: the four fullwidth ones and ASCII ! ? ; .
Terminators == {Ch.stop, Ch.semi, Ch.excl, Ch.ques,
                Ch.aexcl, Ch.aques, Ch.asemi, Ch.adot}

RECURSIVE Concat(_)
Concat(parts) == IF parts = <<>> THEN <<>> ELSE Head(parts) \o Concat(Tail(parts))

NotSpace(c) == ~IsSpace(c)

\* C11: split_sentences ends a sentence right after every fullwidth or ASCII
\* terminator: no returned fragment has a terminator before its last
\* character, none is empty, and the fragments put together in order are the
\* text (whitespace aside), so every terminator stays with the sentence it
\* closes.
SplitTerminators ==
    pc = "split_done" =>
        /\ \A k \in 1..Len(out) :
               /\ out[k] # <<>>
               /\ \A p \in 1..(Len(out[k]) - 1) : out[k][p] \notin Terminators
        /\ SelectSeq(Concat(out), NotSpace) = SelectSeq(s, NotSpace)

=============================================================================
